---- MODULE Spec2Model ----
(***************************************************************************)
(* BFGS.ipynb: line_search / zoom (strong Wolfe line search) and the bfgs  *)
(* driver.                                                                 *)
(*                                                                         *)
(* Numbers.  Python floats are modelled by exact rationals <<n, d>> with   *)
(* d > 0 in lowest terms; rounding is not modelled.  A division by zero    *)
(* yields the token NonFinite: the notebook's phi and fun return numpy     *)
(* float64 values (np.sin, numpy array elements), whose division by zero   *)
(* gives inf or nan instead of raising.  inf and nan are not told apart:   *)
(* a comparison with NonFinite is false, as every comparison with nan is,  *)
(* and as the comparisons are that the code makes with an infinite step    *)
(* (abs(alpha - alpha_low) < ..., norm(x[k + 1] - x[k]) < tol).            *)
(*                                                                         *)
(* Caller-supplied functions.  phi, fun and grad are arbitrary functions   *)
(* of the caller.  The model fixes such a function lazily: the value at a  *)
(* point is chosen when the code first evaluates it and remembered, so a   *)
(* second evaluation at the same point returns the same value.  At an       *)
(* argument that is not finite the function is taken to return nan.        *)
(***************************************************************************)
EXTENDS Integers, Sequences, FiniteSets, TLC

----------------------------------------------------------------------------
(* Bounds of the model *)

PhiMax == 2
DphiMax == 1
MaxMaxiter == 3
ZoomCap == 2
MaxNumber == 1000
MaxK == 2

----------------------------------------------------------------------------
(* Exact rational arithmetic *)

\* Python's None, and a float that is not finite (inf or nan): neither is a pair n/d.
None == <<>>
NonFinite == <<0, 0>>
Finite(p) == p # None /\ p # NonFinite

\* Python's truth value of an optional number: None and 0 are false
Truthy(p) == p # None /\ p # <<0, 1>>

Abs(i) == IF i < 0 THEN -i ELSE i

RECURSIVE Gcd(_, _)
Gcd(a, b) == IF b = 0 THEN a ELSE Gcd(b, a % b)

Frac(n, d) ==
    LET g == Gcd(Abs(n), Abs(d))
        s == IF d < 0 THEN -1 ELSE 1
    IN  <<(s * n) \div g, (s * d) \div g>>

R(i) == <<i, 1>>
Both(p, q) == Finite(p) /\ Finite(q)
\* Sums and products cancel common factors before they multiply, so that the
\* intermediate integers stay as small as the result allows.
RAdd(p, q) ==
    IF Both(p, q)
    THEN LET g == Gcd(p[2], q[2])
         IN  Frac(p[1] * (q[2] \div g) + q[1] * (p[2] \div g), (p[2] \div g) * q[2])
    ELSE NonFinite
RNeg(p) == IF Finite(p) THEN <<-p[1], p[2]>> ELSE NonFinite
RSub(p, q) == RAdd(p, RNeg(q))
RMul(p, q) ==
    IF Both(p, q)
    THEN LET g == Gcd(Abs(p[1]), q[2])
             h == Gcd(Abs(q[1]), p[2])
         IN  Frac((p[1] \div g) * (q[1] \div h), (p[2] \div h) * (q[2] \div g))
    ELSE NonFinite
RDiv(p, q) ==
    IF Both(p, q) /\ q[1] # 0
    THEN RMul(p, IF q[1] < 0 THEN <<-q[2], -q[1]>> ELSE <<q[2], q[1]>>)
    ELSE NonFinite
RAbs(p) == IF Finite(p) THEN <<Abs(p[1]), p[2]>> ELSE NonFinite
\* n1/d1 < n2/d2 for d1, d2 > 0, by integer parts and then the reciprocals of the
\* fractional parts (no product of a numerator and a denominator is formed).
RECURSIVE Less(_, _, _, _)
Less(n1, d1, n2, d2) ==
    LET i1 == n1 \div d1
        i2 == n2 \div d2
        r1 == n1 % d1
        r2 == n2 % d2
    IN  IF i1 # i2 THEN i1 < i2
        ELSE IF r2 = 0 THEN FALSE
        ELSE IF r1 = 0 THEN TRUE
        ELSE Less(d2, r2, d1, r1)
RLt(p, q) == Both(p, q) /\ Less(p[1], p[2], q[1], q[2])
RLe(p, q) == Both(p, q) /\ ~Less(q[1], q[2], p[1], p[2])
RGt(p, q) == RLt(q, p)
RGe(p, q) == RLe(q, p)
RMin(p, q) == IF RLe(p, q) THEN p ELSE q

\* The numbers the model follows: those whose numerator and denominator are small
\* enough for the arithmetic on them to stay within 32-bit integers.
Small(p) == ~Finite(p) \/ (Abs(p[1]) <= MaxNumber /\ p[2] <= MaxNumber)

----------------------------------------------------------------------------
(* numpy arrays: a vector is a sequence of rationals, a matrix a sequence of rows *)

RECURSIVE RSum(_, _)
RSum(f, n) == IF n = 0 THEN R(0) ELSE RAdd(RSum(f, n - 1), f[n])

VFinite(v) == \A i \in DOMAIN v : Finite(v[i])
VAdd(u, v) == [i \in DOMAIN u |-> RAdd(u[i], v[i])]
VSub(u, v) == [i \in DOMAIN u |-> RSub(u[i], v[i])]
VScale(a, v) == [i \in DOMAIN v |-> RMul(a, v[i])]
VNeg(v) == [i \in DOMAIN v |-> RNeg(v[i])]
\* np.dot(u, v)
Dot(u, v) == RSum([i \in DOMAIN u |-> RMul(u[i], v[i])], Len(u))
\* norm(v) > t and norm(v) < t for a tolerance t > 0, by comparing the squares
NormGt(v, t) == RGt(Dot(v, v), RMul(t, t))
NormLt(v, t) == RLt(Dot(v, v), RMul(t, t))

\* np.identity(n)
identity_matrix(n) == [i \in 1..n |-> [j \in 1..n |-> IF i = j THEN R(1) ELSE R(0)]]
\* M.dot(v)
MatVec(M, v) == [i \in DOMAIN M |-> Dot(M[i], v)]
\* A.dot(B)
MatMul(A, B) ==
    [i \in DOMAIN A |->
        [j \in DOMAIN B[1] |-> RSum([l \in DOMAIN B |-> RMul(A[i][l], B[l][j])], Len(B))]]
MatAdd(A, B) == [i \in DOMAIN A |-> [j \in DOMAIN A[i] |-> RAdd(A[i][j], B[i][j])]]
MatSub(A, B) == [i \in DOMAIN A |-> [j \in DOMAIN A[i] |-> RSub(A[i][j], B[i][j])]]
\* a * u[..., None] * v
Outer(a, u, v) == [i \in DOMAIN u |-> [j \in DOMAIN v |-> RMul(RMul(a, u[i]), v[j])]]
VSmall(v) == \A i \in DOMAIN v : Small(v[i])
MSmall(M) == \A i \in DOMAIN M : VSmall(M[i])

----------------------------------------------------------------------------
(* line_search and zoom *)

VARIABLES
    alpha_max,    \* line_search argument: None or a rational
    maxiter_ls,   \* line_search argument maxiter
    alpha,        \* the list alpha of trial step lengths (alpha[1] is alpha[0] of the code)
    ls_k,         \* the loop variable k of line_search
    alpha_low,    \* zoom's alpha_low
    alpha_hight,  \* zoom's alpha_hight
    phi_tab,      \* the values of phi evaluated so far: step length -> value
    dphi_tab,     \* the values of dphi evaluated so far: step length -> value
    ls_pc,        \* "bracket", "zoom", "returned"
    ls_result,    \* the value line_search returned
    ls_via,       \* return path: "direct", "zoom", "fallback"
    tested,       \* the trial step lengths line_search tested, in order
    last_iter,    \* what the last bracketing iteration saw and did
    zoom_n,       \* zoom iterations done
    zoom_prev     \* phi(alpha_low) before the last replacement of alpha_low

ls_vars == <<alpha_max, maxiter_ls, alpha, ls_k, alpha_low, alpha_hight, phi_tab,
             dphi_tab, ls_pc, ls_result, ls_via, tested, last_iter, zoom_n, zoom_prev>>

VARIABLES
    args,             \* the arguments tol, gtol, grad, eps, maxiter of the call of bfgs
    k,                \* the iteration counter k
    x,                \* the list x of iterates (x[1] is x[0] of the code)
    inverse_hessian,  \* the inverse Hessian approximation
    grad_tab,         \* the gradients evaluated so far: point -> gradient
    bfgs_pc,          \* "loop" at the head of the while loop, "returned" after return
    result,           \* the returned dictionary
    exit_via,         \* how the loop was left: "gtol", "maxiter" or "tol"
    eps_used,         \* the eps of every call of compute_gradient so far
    searched_at,      \* the values of k with which line_search was called
    updated_at,       \* the values of k with which the inverse Hessian was updated
    hessian_at_start, \* the inverse Hessian at the start of the latest iteration
    curvature_kept    \* every update so far had np.dot(y, s) > 0

bfgs_vars == <<args, k, x, inverse_hessian, grad_tab, bfgs_pc, result, exit_via, eps_used,
               searched_at, updated_at, hessian_at_start, curvature_kept>>

vars == <<ls_vars, bfgs_vars>>

c1 == <<1, 10000>>
c2 == <<9, 10>>

PhiValues == {R(v) : v \in -PhiMax..PhiMax}
DphiValues == {R(v) : v \in -DphiMax..DphiMax}
AlphaMaxChoices == {None, <<1, 2>>, <<3, 2>>}
MaxiterChoices == 1..MaxMaxiter

\* The value of a caller's function at point a: the remembered one, or the fresh choice v.
\* At a point that is not finite the result is not finite: the notebook's phi computes
\* (10 * alpha - 1) ** 4 + np.sin(alpha), and the phi of bfgs fun(x[k] + alpha * p).
Eval(tab, a, v) ==
    IF ~Finite(a) THEN NonFinite ELSE IF a \in DOMAIN tab THEN tab[a] ELSE v
Remember(tab, a, v) ==
    IF ~Finite(a) \/ a \in DOMAIN tab THEN tab ELSE tab @@ (a :> v)

\* phi(a) > phi(0) + c1 * a * dphi(0)
DecreaseFails(fa, a, f0, d0) == RGt(fa, RAdd(f0, RMul(RMul(c1, a), d0)))
\* The curvature test without the absolute value: dphi(a) <= -c2 * dphi(0)
CurvatureHoldsWithoutAbs(da, d0) == RLe(da, RMul(RNeg(c2), d0))
\* abs(dphi(a)) <= -c2 * dphi(0)
CurvatureHolds(da, d0) == RLe(RAbs(da), RMul(RNeg(c2), d0))

\* alpha = [0, 1 if not alpha_max else min(1, alpha_max)]
InitialAlpha(amax) == <<R(0), IF ~Truthy(amax) THEN R(1) ELSE RMin(R(1), amax)>>
\* 2 * alpha[k] if not alpha_max else min(2 * alpha[k], alpha_max)
NextAlpha(ak, amax) ==
    IF ~Truthy(amax) THEN RMul(R(2), ak) ELSE RMin(RMul(R(2), ak), amax)

quadratic_interpolation_minimizer(a, fa, dfa, b, fb) ==
    LET ba  == RSub(b, a)
        num == RMul(dfa, RMul(ba, ba))
        den == RMul(R(2), RSub(RSub(fb, fa), RMul(dfa, ba)))
        q   == RDiv(num, den)
    IN  RSub(a, q)

\* bfgs is not running
BfgsIdle ==
    /\ args = [tol |-> None, gtol |-> None, grad |-> FALSE, eps |-> None, maxiter |-> None]
    /\ k = 0
    /\ x = <<>>
    /\ inverse_hessian = <<>>
    /\ grad_tab = <<>>
    /\ bfgs_pc = "idle"
    /\ result = [x |-> <<>>, hess_inv |-> <<>>, nit |-> 0]
    /\ exit_via = "none"
    /\ eps_used = {}
    /\ searched_at = {}
    /\ updated_at = {}
    /\ hessian_at_start = <<>>
    /\ curvature_kept = TRUE

LsInit ==
    /\ BfgsIdle
    /\ alpha_max \in AlphaMaxChoices
    /\ maxiter_ls \in MaxiterChoices
    /\ alpha = InitialAlpha(alpha_max)
    /\ ls_k = 1
    /\ alpha_low = None
    /\ alpha_hight = None
    /\ phi_tab = (R(0) :> R(0))
    /\ \E d0 \in DphiValues : dphi_tab = (R(0) :> d0)
    /\ ls_pc = "bracket"
    /\ ls_result = None
    /\ ls_via = "none"
    /\ tested = <<>>
    /\ last_iter = [k |-> 0, fk |-> None, fkm1 |-> None, did |-> "none"]
    /\ zoom_n = 0
    /\ zoom_prev = None

\* The fresh values an evaluation may need: none when the point was evaluated before.
Fresh(tab, a, values) == IF a \in DOMAIN tab \/ ~Finite(a) THEN {R(0)} ELSE values

\* The first test of the for loop (lines 50-53): the trial step fails the sufficient
\* decrease condition, or phi rose since the previous trial step.
BracketFound(ak, fk, fkm1) ==
    DecreaseFails(fk, ak, phi_tab[R(0)], dphi_tab[R(0)]) \/ (ls_k > 1 /\ RGt(fk, fkm1))

\* One iteration of the for loop of line_search (lines 49-62) at trial step ak, after
\* akm1.  fk is phi(ak), fkm1 is phi(akm1), dk is dphi(ak) if the code evaluates it.
BracketStep(ak, akm1, fk, fkm1, dk) ==
    /\ tested' = Append(tested, ak)
    /\ phi_tab' = Remember(phi_tab, ak, fk)
    /\ IF BracketFound(ak, fk, fkm1)
       THEN /\ ls_pc' = "zoom"
            /\ alpha_low' = akm1
            /\ alpha_hight' = ak
            /\ last_iter' = [k |-> ls_k, fk |-> fk, fkm1 |-> fkm1, did |-> "zoom_prev_cur"]
            /\ UNCHANGED <<dphi_tab, alpha, ls_k, ls_result, ls_via>>
       ELSE IF CurvatureHolds(dk, dphi_tab[R(0)])
       THEN /\ ls_pc' = "returned"
            /\ ls_result' = ak
            /\ ls_via' = "direct"
            /\ dphi_tab' = Remember(dphi_tab, ak, dk)
            /\ last_iter' = [k |-> ls_k, fk |-> fk, fkm1 |-> fkm1, did |-> "return"]
            /\ UNCHANGED <<alpha, ls_k, alpha_low, alpha_hight>>
       ELSE IF RGe(dk, R(0))
       THEN /\ ls_pc' = "zoom"
            /\ alpha_low' = ak
            /\ alpha_hight' = akm1
            /\ dphi_tab' = Remember(dphi_tab, ak, dk)
            /\ last_iter' = [k |-> ls_k, fk |-> fk, fkm1 |-> fkm1, did |-> "zoom_cur_prev"]
            /\ UNCHANGED <<alpha, ls_k, ls_result, ls_via>>
       ELSE /\ alpha' = Append(alpha, NextAlpha(ak, alpha_max))
            /\ ls_k' = ls_k + 1
            /\ dphi_tab' = Remember(dphi_tab, ak, dk)
            /\ last_iter' = [k |-> ls_k, fk |-> fk, fkm1 |-> fkm1, did |-> "extend"]
            /\ UNCHANGED <<ls_pc, ls_result, ls_via, alpha_low, alpha_hight>>

Bracket ==
    /\ ls_pc = "bracket"
    /\ ls_k < maxiter_ls
    /\ \E v \in Fresh(phi_tab, alpha[ls_k + 1], PhiValues) :
       \E fk \in {Eval(phi_tab, alpha[ls_k + 1], v)} :
       \E fkm1 \in {Eval(Remember(phi_tab, alpha[ls_k + 1], v), alpha[ls_k], NonFinite)} :
       \E d \in IF BracketFound(alpha[ls_k + 1], fk, fkm1)
                 THEN {NonFinite}
                 ELSE Fresh(dphi_tab, alpha[ls_k + 1], DphiValues) :
          BracketStep(alpha[ls_k + 1], alpha[ls_k], fk, fkm1,
                      Eval(dphi_tab, alpha[ls_k + 1], d))
    /\ UNCHANGED <<alpha_max, maxiter_ls, zoom_n, zoom_prev>>
    /\ UNCHANGED bfgs_vars

\* The loop of line_search ran out: return alpha[-1] (line 64).
Fallback ==
    /\ ls_pc = "bracket"
    /\ ls_k >= maxiter_ls
    /\ ls_pc' = "returned"
    /\ ls_result' = alpha[Len(alpha)]
    /\ ls_via' = "fallback"
    /\ UNCHANGED <<alpha_max, maxiter_ls, alpha, ls_k, alpha_low, alpha_hight, phi_tab,
                   dphi_tab, tested, last_iter, zoom_n, zoom_prev>>
    /\ UNCHANGED bfgs_vars

\* alpha of one iteration of zoom (lines 72-78): the interpolated step, or the
\* "bisection" step 0.5 * (alpha_hight - alpha_low).
ZoomTrial(low, flow, dlow, high, fhigh) ==
    LET a0    == quadratic_interpolation_minimizer(low, flow, dlow, high, fhigh)
        width == RSub(high, low)
    IN  IF RLt(RAbs(RSub(a0, low)), RMul(<<1, 10>>, width))
        THEN RMul(<<1, 2>>, width)
        ELSE a0

\* The first test of the while loop (line 80): the trial step fails the sufficient
\* decrease condition, or phi there is not below phi(alpha_low).
ZoomShrinksHigh(a, fa, flow) ==
    DecreaseFails(fa, a, phi_tab[R(0)], dphi_tab[R(0)]) \/ RGe(fa, flow)

\* One iteration of the while loop of zoom (lines 71-87) with trial step a.  flow is
\* phi(alpha_low), fa is phi(a), da is dphi(a) if the code evaluates it.
ZoomStep(a, flow, fa, da) ==
    /\ phi_tab' = Remember(phi_tab, a, fa)
    /\ zoom_n' = zoom_n + 1
    /\ IF ZoomShrinksHigh(a, fa, flow)
       THEN /\ alpha_hight' = a
            /\ UNCHANGED <<alpha_low, dphi_tab, ls_pc, ls_result, ls_via, zoom_prev>>
       ELSE IF CurvatureHolds(da, dphi_tab[R(0)])
       THEN /\ ls_pc' = "returned"
            /\ ls_result' = a
            /\ ls_via' = "zoom"
            /\ dphi_tab' = Remember(dphi_tab, a, da)
            /\ UNCHANGED <<alpha_low, alpha_hight, zoom_prev>>
       ELSE /\ alpha_hight' = IF RGe(RMul(da, RSub(alpha_hight, alpha_low)), R(0))
                              THEN alpha_low ELSE alpha_hight
            /\ alpha_low' = a
            /\ zoom_prev' = flow
            /\ dphi_tab' = Remember(dphi_tab, a, da)
            /\ UNCHANGED <<ls_pc, ls_result, ls_via>>

Zoom ==
    /\ ls_pc = "zoom"
    /\ zoom_n < ZoomCap
    /\ \E flow \in {Eval(phi_tab, alpha_low, NonFinite)} :
       \E a \in {ZoomTrial(alpha_low, flow, Eval(dphi_tab, alpha_low, NonFinite),
                            alpha_hight, Eval(phi_tab, alpha_hight, NonFinite))} :
          /\ Small(a)
          /\ \E v \in Fresh(phi_tab, a, PhiValues) :
             \E d \in IF ZoomShrinksHigh(a, Eval(phi_tab, a, v), flow)
                       THEN {NonFinite}
                       ELSE Fresh(dphi_tab, a, DphiValues) :
                ZoomStep(a, flow, Eval(phi_tab, a, v), Eval(dphi_tab, a, d))
    /\ UNCHANGED <<alpha_max, maxiter_ls, alpha, ls_k, tested, last_iter>>
    /\ UNCHANGED bfgs_vars

\* line_search is not running
LsIdle ==
    /\ alpha_max = None
    /\ maxiter_ls = 0
    /\ alpha = <<>>
    /\ ls_k = 0
    /\ alpha_low = None
    /\ alpha_hight = None
    /\ phi_tab = <<>>
    /\ dphi_tab = <<>>
    /\ ls_pc = "idle"
    /\ ls_result = None
    /\ ls_via = "none"
    /\ tested = <<>>
    /\ last_iter = [k |-> 0, fk |-> None, fkm1 |-> None, did |-> "none"]
    /\ zoom_n = 0
    /\ zoom_prev = None

LsNext == Bracket \/ Fallback \/ Zoom

LsSpec == LsInit /\ [][LsNext]_vars

----------------------------------------------------------------------------
(* bfgs *)

\* The unit of the points and gradients of the model is 1e-9, so that the default
\* gtol = 1e-9 is the number 1.
default_gtol == R(1)
\* The default eps = 1e-6 of compute_gradient
default_eps == <<1, 1000000>>

x0 == <<R(0), R(0)>>
GradValues ==
    {<<R(0), R(0)>>, <<R(1), R(0)>>, <<R(1), R(1)>>, <<R(-2), R(1)>>, <<R(0), R(-1)>>}
\* What line_search(phi) returns (line 235): a step length that met the strong Wolfe
\* conditions, or after its 9 doublings of the trial step 1 the fallback 2 ** 9.
StepValues ==
    {[alpha |-> <<1, 2>>, via |-> "wolfe"], [alpha |-> R(1), via |-> "wolfe"],
     [alpha |-> R(512), via |-> "fallback"]}
\* A step that met the strong Wolfe conditions along a descent direction p fixes the
\* slope at the new point: abs(gn . p) <= -c2 * (gk . p).  phi'(0) and phi'(alpha)
\* are the slopes gk . p and gn . p of fun along p.
StepAdmits(step, gk, p, gn) ==
    \/ step.via = "fallback"
    \/ ~RLt(Dot(gk, p), R(0))
    \/ CurvatureHolds(Dot(gn, p), Dot(gk, p))

\* The calls of bfgs the model follows
Calls ==
    {[tol |-> t, gtol |-> g, grad |-> FALSE, eps |-> None, maxiter |-> m] :
        t \in {None, R(2)}, g \in {None, <<3, 2>>}, m \in {None, R(0), R(1), R(2)}}
    \cup {[tol |-> None, gtol |-> None, grad |-> a, eps |-> e, maxiter |-> None] :
        a \in BOOLEAN, e \in {None, <<1, 1000>>}}

\* if not gtol: gtol = 1e-9
Gtol(a) == IF Truthy(a.gtol) THEN a.gtol ELSE default_gtol

\* The eps compute_gradient works with when bfgs builds grad itself:
\* grad = lambda x: compute_gradient(fun, x)
GradientEps(a) == default_eps

\* grad(pt): the remembered gradient, or the fresh choice g; not finite at a point
\* that is not finite.
GradAt(tab, pt, g) ==
    IF ~VFinite(pt) THEN [i \in DOMAIN pt |-> NonFinite]
    ELSE IF pt \in DOMAIN tab THEN tab[pt] ELSE g
RememberGrad(tab, pt, g) ==
    IF ~VFinite(pt) \/ pt \in DOMAIN tab THEN tab ELSE tab @@ (pt :> g)
FreshGrad(tab, pt) ==
    IF ~VFinite(pt) \/ pt \in DOMAIN tab THEN {<<R(0), R(0)>>} ELSE GradValues
\* The eps of the calls of compute_gradient that evaluations of grad make
EpsAfterGrad(used, a) == IF a.grad THEN used ELSE used \cup {GradientEps(a)}

\* The update with its right factor not transposed: I - rho * s * y^T on both sides
bfgs_update_same_factor(H, s, y) ==
    LET rho == RDiv(R(1), Dot(y, s))
        I   == identity_matrix(Len(s))
    IN  MatAdd(MatMul(MatSub(I, Outer(rho, s, y)),
                      MatMul(H, MatSub(I, Outer(rho, s, y)))),
               Outer(rho, s, s))

\* The update of the inverse Hessian (lines 250-254)
bfgs_update(H, s, y) ==
    LET rho == RDiv(R(1), Dot(y, s))
        I   == identity_matrix(Len(s))
    IN  MatAdd(MatMul(MatSub(I, Outer(rho, s, y)),
                      MatMul(H, MatSub(I, Outer(rho, y, s)))),
               Outer(rho, s, s))

\* The result with the number of appended iterates as nit
ResultCountingIterates(xs, H, n) == [x |-> xs[Len(xs)], hess_inv |-> H, nit |-> Len(xs) - 1]

\* return {'x': x[-1], 'hess_inv': inverse_hessian, 'nit': k}
Result(xs, H, n) == [x |-> xs[Len(xs)], hess_inv |-> H, nit |-> n]

Init ==
    /\ LsIdle
    /\ args \in Calls
    /\ k = 0
    /\ x = <<x0>>
    /\ inverse_hessian = identity_matrix(Len(x0))
    /\ grad_tab = <<>>
    /\ bfgs_pc = "loop"
    /\ result = [x |-> <<>>, hess_inv |-> <<>>, nit |-> 0]
    /\ exit_via = "none"
    /\ eps_used = {}
    /\ searched_at = {}
    /\ updated_at = {}
    /\ hessian_at_start = <<>>
    /\ curvature_kept = TRUE

\* The while condition is false (line 225): the loop ends
Converged ==
    /\ bfgs_pc = "loop"
    /\ \E g \in FreshGrad(grad_tab, x[k + 1]) :
          /\ ~NormGt(GradAt(grad_tab, x[k + 1], g), Gtol(args))
          /\ grad_tab' = RememberGrad(grad_tab, x[k + 1], g)
    /\ eps_used' = EpsAfterGrad(eps_used, args)
    /\ bfgs_pc' = "returned"
    /\ exit_via' = "gtol"
    /\ result' = Result(x, inverse_hessian, k)
    /\ UNCHANGED <<args, k, x, inverse_hessian, searched_at, updated_at, hessian_at_start,
                   curvature_kept>>
    /\ UNCHANGED ls_vars

\* if maxiter and k == maxiter: break (lines 226-227)
MaxiterReached(a, n) == Truthy(a.maxiter) /\ R(n) = a.maxiter

MaxiterBreak ==
    /\ bfgs_pc = "loop"
    /\ \E g \in FreshGrad(grad_tab, x[k + 1]) :
          /\ NormGt(GradAt(grad_tab, x[k + 1], g), Gtol(args))
          /\ grad_tab' = RememberGrad(grad_tab, x[k + 1], g)
    /\ MaxiterReached(args, k)
    /\ eps_used' = EpsAfterGrad(eps_used, args)
    /\ bfgs_pc' = "returned"
    /\ exit_via' = "maxiter"
    /\ result' = Result(x, inverse_hessian, k)
    /\ UNCHANGED <<args, k, x, inverse_hessian, searched_at, updated_at, hessian_at_start,
                   curvature_kept>>
    /\ UNCHANGED ls_vars

\* if tol and norm(x[k + 1] - x[k]) < tol: break (lines 243-244)
TolReached(a, s) == Truthy(a.tol) /\ NormLt(s, a.tol)

\* One iteration of the while loop (lines 225-257) from gradient gk at x[k] to the
\* new point xn, with the gradient gn at xn if the code evaluates it.
Iteration(gk, xn, gn) ==
    /\ x' = Append(x, xn)
    /\ searched_at' = searched_at \cup {k}
    /\ hessian_at_start' = inverse_hessian
    /\ IF TolReached(args, VSub(xn, x[k + 1]))
       THEN /\ bfgs_pc' = "returned"
            /\ exit_via' = "tol"
            /\ result' = Result(Append(x, xn), inverse_hessian, k)
            /\ grad_tab' = RememberGrad(grad_tab, x[k + 1], gk)
            /\ eps_used' = EpsAfterGrad(eps_used, args)
            /\ UNCHANGED <<k, inverse_hessian, updated_at, curvature_kept>>
       ELSE /\ inverse_hessian' =
                   bfgs_update(inverse_hessian, VSub(xn, x[k + 1]), VSub(gn, gk))
            /\ curvature_kept' =
                   (curvature_kept /\ RGt(Dot(VSub(gn, gk), VSub(xn, x[k + 1])), R(0)))
            /\ updated_at' = updated_at \cup {k}
            /\ k' = k + 1
            /\ grad_tab' = RememberGrad(RememberGrad(grad_tab, x[k + 1], gk), xn, gn)
            /\ eps_used' = EpsAfterGrad(eps_used, args)
            /\ UNCHANGED <<bfgs_pc, exit_via, result>>

Iterate ==
    /\ bfgs_pc = "loop"
    /\ k < MaxK
    /\ ~MaxiterReached(args, k)
    /\ MSmall(inverse_hessian)
    /\ \E g \in FreshGrad(grad_tab, x[k + 1]) :
       \E gk \in {GradAt(grad_tab, x[k + 1], g)} :
          /\ NormGt(gk, Gtol(args))
          /\ \E p \in {VNeg(MatVec(inverse_hessian, gk))} :
             \E step \in StepValues :
             \E xn \in {VAdd(x[k + 1], VScale(step.alpha, p))} :
                /\ VSmall(xn)
                /\ IF TolReached(args, VSub(xn, x[k + 1]))
                   THEN Iteration(gk, xn, gk)
                   ELSE \E h \in FreshGrad(RememberGrad(grad_tab, x[k + 1], gk), xn) :
                        \E gn \in {GradAt(RememberGrad(grad_tab, x[k + 1], gk), xn, h)} :
                           /\ StepAdmits(step, gk, p, gn)
                           /\ Iteration(gk, xn, gn)
    /\ UNCHANGED args
    /\ UNCHANGED ls_vars

Next == Converged \/ MaxiterBreak \/ Iterate

Spec == Init /\ [][Next]_vars

----------------------------------------------------------------------------
(* Claims about line_search and zoom *)

f0 == phi_tab[R(0)]
d0 == dphi_tab[R(0)]
\* Sufficient decrease at step a: phi(a) <= phi(0) + c1 * a * phi'(0)
SufficientDecrease(a) == RLe(Eval(phi_tab, a, NonFinite), RAdd(f0, RMul(RMul(c1, a), d0)))
\* Curvature at step a: |phi'(a)| <= c2 * |phi'(0)|
Curvature(a) == RLe(RAbs(Eval(dphi_tab, a, NonFinite)), RMul(c2, RAbs(d0)))

\* C1: when phi'(0) < 0 and line_search returns directly or through zoom, the
\* returned step satisfies both strong Wolfe conditions.
C1_StrongWolfeOnReturn ==
    (ls_pc = "returned" /\ ls_via \in {"direct", "zoom"} /\ RLt(d0, R(0)))
        => SufficientDecrease(ls_result) /\ Curvature(ls_result)

C1_Witness ==
    /\ ls_pc = "returned" /\ ls_via = "zoom" /\ RLt(d0, R(0))
    /\ zoom_n >= 2

\* C5: every step length line_search returns is nonnegative and, when alpha_max is
\* supplied, at most alpha_max.
C5_StepWithinBounds ==
    ls_pc = "returned"
        => /\ RGe(ls_result, R(0))
           /\ alpha_max # None => RLe(ls_result, alpha_max)

\* C7: on the fallback return, line_search has tested exactly maxiter trial step
\* lengths and returns the last one it tested.
C7_FallbackIsLastTested ==
    (ls_pc = "returned" /\ ls_via = "fallback")
        => /\ Len(tested) = maxiter_ls
           /\ ls_result = tested[Len(tested)]

\* C8: in a bracketing iteration k > 1 with phi(alpha[k]) >= phi(alpha[k-1]),
\* line_search goes to zoom with low = alpha[k-1] and high = alpha[k].
C8_ZoomOnNoDecrease ==
    (last_iter.k > 1 /\ RGe(last_iter.fk, last_iter.fkm1))
        => last_iter.did = "zoom_prev_cur"

\* C9: at the start of every zoom iteration alpha_low satisfies sufficient decrease,
\* and phi(alpha_low) did not increase when alpha_low was last replaced.
C9_LowHasSufficientDecrease ==
    ls_pc = "zoom"
        => /\ SufficientDecrease(alpha_low)
           /\ zoom_prev # None => RLe(Eval(phi_tab, alpha_low, NonFinite), zoom_prev)

----------------------------------------------------------------------------
(* Claims about bfgs *)

NormLe(v, t) == RLe(Dot(v, v), RMul(t, t))
Symmetric(M) == \A i \in DOMAIN M : \A j \in DOMAIN M : Finite(M[i][j]) /\ M[i][j] = M[j][i]

\* C2: a result bfgs returns when neither tol nor maxiter is supplied is converged:
\* norm(grad(x)) <= gtol at the returned x, x is the last entry of the trajectory
\* and nit is the number of inverse Hessian updates.
C2_ResultIsConverged ==
    (bfgs_pc = "returned" /\ args.tol = None /\ args.maxiter = None)
        => /\ NormLe(GradAt(grad_tab, result.x, <<NonFinite, NonFinite>>), Gtol(args))
           /\ result.x = x[Len(x)]
           /\ result.nit = Cardinality(updated_at)

\* C3: with maxiter supplied (0 included) no line search and no update starts with
\* k >= maxiter, and the returned nit is at most maxiter.
C3_MaxiterBoundsIterations ==
    args.maxiter # None
        => /\ \A n \in searched_at \cup updated_at : RLt(R(n), args.maxiter)
           /\ bfgs_pc = "returned" => RLe(R(result.nit), args.maxiter)

\* C4: without an analytic gradient every call of compute_gradient uses the
\* caller's eps, and the default 1e-6 only when eps is not supplied.
C4_CallerEpsUsed ==
    ~args.grad
        => eps_used \subseteq {IF args.eps # None THEN args.eps ELSE default_eps}

\* C6: on the exit through the step-size test the returned x is the appended iterate
\* x[k+1], hess_inv is the matrix of the start of that iteration and nit is k, the
\* counter of the iteration that was started and not completed; on every other
\* exit the returned x is x[nit].
C6_TolExitResult ==
    bfgs_pc = "returned"
        => IF exit_via = "tol"
           THEN /\ Len(x) = k + 2
                /\ result.x = x[k + 2]
                /\ result.hess_inv = hessian_at_start
                /\ result.nit = k
                /\ k \in searched_at /\ k \notin updated_at
                /\ Cardinality(updated_at) = k
           ELSE result.x = x[result.nit + 1]

C6_Witness ==
    /\ bfgs_pc = "returned" /\ exit_via = "tol"
    /\ k >= 1
    /\ result.hess_inv # identity_matrix(Len(x0))
    /\ result.x # x[k + 1]

\* C10: the inverse Hessian is symmetric in every state: the identity at first, and
\* after any number of updates that had y^T s > 0.
C10_HessianSymmetric ==
    (bfgs_pc # "idle" /\ curvature_kept) => Symmetric(inverse_hessian)

C10_Witness ==
    /\ curvature_kept
    /\ Cardinality(updated_at) >= 2
    /\ inverse_hessian[1][2] # R(0)
    /\ inverse_hessian[1][1] # inverse_hessian[2][2]

====
